---- MODULE Spec2Model ----
(***************************************************************************)
(* Model of src/RadhaRadhaApp.tsx: the three-stage greeting application    *)
(* (LockScreen -> LoveLetter -> ProposalScreen), its voice/typed unlock,   *)
(* the timed paragraph reveal and the BackgroundMusic melody loop.         *)
(*                                                                         *)
(* Time is discrete; one unit of time is 10 ms, the greatest common        *)
(* divisor of every delay the program passes to setTimeout/setInterval in  *)
(* the modelled components.  A pending timer is a record in the sequence   *)
(* `timers` (creation order) that carries its remaining time; time cannot  *)
(* advance past a timer that is due.                                       *)
(*                                                                         *)
(* Texts are sequences of characters; a Latin character is written as a    *)
(* one-character string, a Devanagari code unit by its code point name.    *)
(*                                                                         *)
(* Spec follows the application from the first render of LockScreen to the *)
(* first render of ProposalScreen, SpecProposal follows ProposalScreen     *)
(* from its first render, SpecMatch applies the phrase tests to texts.     *)
(***************************************************************************)
EXTENDS Integers, Sequences, FiniteSets

\* ------------------------------------------------------------------------
\* Bounds of the model
\* ------------------------------------------------------------------------
\* user inputs per run: capture sessions started by a lock tap, typed
\* submissions, activations of the music toggle and of the evasive button
MaxInputs == 3
\* longest text given to the phrase test in SpecMatch
MaxLen == 5
\* time modelled after the Lock stage has been left (in SpecProposal: after
\* ProposalScreen has been entered), in units of 10 ms
Horizon == 1400

\* ------------------------------------------------------------------------
\* Program constants (delays in units of 10 ms)
\* ------------------------------------------------------------------------
UnlockDelay == 150
MisheardDelay == 300
ErrorDelay == 200
WrongWordDelay == 200
MusicStartDelay == 50
RevealPeriod == 120
\* letterParagraphs.length
ParagraphCount == 10
\* durations of the ten melody notes, in units of 10 ms
melody == <<100, 100, 120, 150, 100, 180, 120, 150, 100, 200>>

\* frequencies of the ten melody notes, in thousandths of a hertz
melodyNote == <<261630, 293660, 329630, 392000, 349230,
                329630, 440000, 392000, 349230, 329630>>
\* passes of the melody followed
MaxPasses == 3

\* ProposalScreen: delays, and the number of celebration particles
HintDelay == 100
ButtonsDelay == 200
RelocateDelay == 100
ParticleCount == 100
ParticleStep == 1
ParticleLife == 200

RECURSIVE SumSeq(_)
SumSeq(s) == IF s = <<>> THEN 0 ELSE Head(s) + SumSeq(Tail(s))

\* melody.reduce((sum, note) => sum + note.duration, 0) * 1000, in units
PassPeriod == SumSeq(melody)

\* ------------------------------------------------------------------------
\* Phrase test
\* ------------------------------------------------------------------------
Radha == <<"r", "a", "d", "h", "a">>
\* the Devanagari phrase: code units U+0930 U+093E U+0927 U+093E
RadhaDeva == <<"U0930", "U093E", "U0927", "U093E">>
Space == <<" ">>

\* LowerChar without the mapping of one letter
LowerCharMissingD(c) ==
  CASE c = "R" -> "r"
    [] c = "A" -> "a"
    [] c = "H" -> "h"
    [] OTHER -> c

\* String.prototype.toLowerCase on one character of the model's alphabet
LowerChar(c) ==
  CASE c = "R" -> "r"
    [] c = "A" -> "a"
    [] c = "D" -> "d"
    [] c = "H" -> "h"
    [] OTHER -> c

toLowerCase(s) == [i \in 1..Len(s) |-> LowerChar(s[i])]

\* String.prototype.includes
includes(s, sub) ==
  \E i \in 0..(Len(s) - Len(sub)) : SubSeq(s, i + 1, i + Len(sub)) = sub

\* a test that asks for the phrase said twice
ResultMatchesTwice(transcript) ==
  LET lowerTranscript == toLowerCase(transcript)
  IN \/ includes(lowerTranscript, Radha \o Space \o Radha)
     \/ includes(lowerTranscript, RadhaDeva \o Space \o RadhaDeva)

\* the test of the onResult callback
ResultMatches(transcript) ==
  LET lowerTranscript == toLowerCase(transcript)
  IN \/ includes(lowerTranscript, Radha \o Space \o Radha)
     \/ includes(lowerTranscript, RadhaDeva \o Space \o RadhaDeva)
     \/ includes(lowerTranscript, Radha)
     \/ includes(lowerTranscript, RadhaDeva)

\* the test of handleFallbackSubmit with its outcome inverted
FallbackMatchesNegated(value) ==
  LET lowerValue == toLowerCase(value)
  IN ~(\/ includes(lowerValue, Radha \o Space \o Radha)
       \/ includes(lowerValue, RadhaDeva \o Space \o RadhaDeva)
       \/ includes(lowerValue, Radha)
       \/ includes(lowerValue, RadhaDeva))

\* the test of handleFallbackSubmit
FallbackMatches(value) ==
  LET lowerValue == toLowerCase(value)
  IN \/ includes(lowerValue, Radha \o Space \o Radha)
     \/ includes(lowerValue, RadhaDeva \o Space \o RadhaDeva)
     \/ includes(lowerValue, Radha)
     \/ includes(lowerValue, RadhaDeva)

\* Reference notion of the claims: the text contains an accepted phrase,
\* each of its letters in either case
UpperChar(c) ==
  CASE c = "r" -> "R"
    [] c = "a" -> "A"
    [] c = "d" -> "D"
    [] c = "h" -> "H"
    [] OTHER -> c

ContainsPhrase(t, ph) ==
  \E i \in 0..(Len(t) - Len(ph)) :
     \A j \in 1..Len(ph) : t[i + j] \in {ph[j], UpperChar(ph[j])}

Accepted(t) == ContainsPhrase(t, Radha) \/ ContainsPhrase(t, RadhaDeva)

\* texts the user speaks or types in the application model
Texts == { <<"R", "a", "d", "h", "a">>, <<"h", "e", "l", "l", "o">> }

\* ------------------------------------------------------------------------
\* State
\* ------------------------------------------------------------------------
VARIABLES
  currentStage,       \* CombinedApp: 'lock' | 'letter' | 'proposal'
  speechAvailable,    \* platform: window.SpeechRecognition exists
  lockReady,          \* LockScreen: mount effects have run
  isSupported,        \* useVoiceRecognition state
  showFallback,       \* LockScreen state
  fallbackValue,      \* LockScreen state
  status,             \* LockScreen state: [msg, text]
  lockIcon,           \* LockScreen state
  isListening,        \* LockScreen state
  refRec,             \* recognitionRef.current: "null" | "idle" | "starting" | "capturing"
  staleRecs,          \* recognizer objects no longer in the ref, with a live session
  timers,             \* pending setTimeout/setInterval callbacks
  visibleParagraphs,  \* LoveLetter state
  isPlaying,          \* LoveLetter state
  ctx,                \* audioContextRef.current: "none" | "suspended" | "running" | "closed"
  resumeWaiters,      \* calls suspended at `await resume()`, per function
  proposalReady,      \* ProposalScreen: the mount effect has run
  showHint,           \* ProposalScreen state
  showProposal,       \* ProposalScreen state
  showButtons,        \* ProposalScreen state
  celebrationMode,    \* ProposalScreen state
  buttonPosition,     \* ProposalScreen state: [x, y] in thousandths of a percent
  particles,          \* particle elements now in document.body
  proposalLog,        \* times since the declaration and the acceptance, particles made and removed
  inputs,             \* user inputs made so far
  unlockCalls,        \* number of onUnlock() calls so far
  matchSeen,          \* an attempt's text contained an accepted phrase
  matchClock,         \* time since the first match made in the Lock stage (-1: none)
  letterClock,        \* time since the LoveLetter now shown was mounted
  clock,              \* modelled time since the Lock stage was left
  shownFor,           \* time since onResult/onError set the status shown (-1: other status)
  lastAttempt,        \* text of the latest attempt on the LockScreen shown
  fired,              \* the timer callback run by the last step, if any
  mText,              \* SpecMatch: the input text
  mResult,            \* SpecMatch: outcome of the phrase tests
  currentTime,        \* SpecMelody: startMusic's schedule clock, in units of 10 ms
  noteIndex,          \* SpecMelody: forEach index of playMelody (-1: not called, 10: done)
  oscillators,        \* SpecMelody: playNote calls of the pass, in order
  passStart,          \* SpecMelody: currentTime when the pass began
  passes              \* SpecMelody: calls of playMelody so far

lockVars == <<lockReady, isSupported, showFallback, fallbackValue, status,
              lockIcon, isListening>>
recVars == <<refRec, staleRecs>>
letterVars == <<visibleParagraphs, isPlaying, ctx, resumeWaiters>>
histVars == <<inputs, unlockCalls, matchSeen, matchClock,
              letterClock, clock, shownFor, lastAttempt>>
matchVars == <<mText, mResult>>
melodyVars == <<currentTime, noteIndex, oscillators, passStart, passes>>
\* variables of the specifications of single functions
funcVars == <<matchVars, melodyVars>>
proposalVars == <<proposalReady, showHint, showProposal, showButtons,
                  celebrationMode, buttonPosition, particles, proposalLog>>

vars == <<currentStage, speechAvailable, lockVars, recVars, timers,
          letterVars, histVars, fired, funcVars, proposalVars>>

Prompt == [msg |-> "prompt", text |-> <<>>]
Unsupported == [msg |-> "unsupported", text |-> <<>>]
ListeningMsg == [msg |-> "listening", text |-> <<>>]
Misheard(t) == [msg |-> "misheard", text |-> t]
ErrorMsg == [msg |-> "error", text |-> <<>>]
WrongWord == [msg |-> "wrongword", text |-> <<>>]
Unlocked == [msg |-> "unlocked", text |-> <<>>]

NoFire == [kind |-> "none", born |-> "none", at |-> "none", ran |-> FALSE]

Timer(k, d) == [kind |-> k, rem |-> d, born |-> currentStage, cap |-> FALSE]

NoRecs == [starting |-> 0, capturing |-> 0]

NoWaiters == [startMusic |-> 0, handleToggle |-> 0]

NoResult == [done |-> FALSE, voice |-> FALSE, typed |-> FALSE]

\* nothing declared or accepted yet (-1), no particle made
NoLog == [declared |-> -1, accepted |-> -1, created |-> 0, removed |-> 0]

\* useState({ x: 50, y: 80 }), in thousandths of a percent
StartPosition == [x |-> 50000, y |-> 80000]

Init ==
  /\ currentStage = "lock"
  /\ speechAvailable \in BOOLEAN
  /\ lockReady = FALSE
  /\ isSupported = FALSE
  /\ showFallback = FALSE
  /\ fallbackValue = <<>>
  /\ status = Prompt
  /\ lockIcon = "locked"
  /\ isListening = FALSE
  /\ refRec = "null"
  /\ staleRecs = NoRecs
  /\ timers = <<>>
  /\ visibleParagraphs = 0
  /\ isPlaying = FALSE
  /\ ctx = "none"
  /\ resumeWaiters = NoWaiters
  /\ inputs = 0
  /\ unlockCalls = 0
  /\ matchSeen = FALSE
  /\ matchClock = -1
  /\ letterClock = 0
  /\ clock = 0
  /\ shownFor = -1
  /\ lastAttempt = <<>>
  /\ fired = NoFire
  /\ proposalReady = FALSE
  /\ showHint = FALSE
  /\ showProposal = FALSE
  /\ showButtons = FALSE
  /\ celebrationMode = FALSE
  /\ buttonPosition = StartPosition
  /\ particles = 0
  /\ proposalLog = NoLog
  /\ mText = <<>>
  /\ mResult = NoResult
  /\ currentTime = 0
  /\ noteIndex = -1
  /\ oscillators = <<>>
  /\ passStart = 0
  /\ passes = 0

\* ------------------------------------------------------------------------
\* Helpers
\* ------------------------------------------------------------------------
Remove(seq, i) == SubSeq(seq, 1, i - 1) \o SubSeq(seq, i + 1, Len(seq))

Due == {i \in DOMAIN timers : timers[i].rem = 0}

\* the due timer that was created first
FirstDue == CHOOSE i \in Due : \A j \in Due : i <= j

DueKind(k) == Due # {} /\ timers[FirstDue].kind = k

Fired(t, didRun) ==
  [kind |-> t.kind, born |-> t.born, at |-> currentStage, ran |-> didRun]

\* a dropped recognizer object whose session is lost with it
RetireDropsSession(r, st) == st

\* a recognizer object dropped from recognitionRef keeps its live session
Retire(r, st) ==
  CASE r = "starting" -> [st EXCEPT !.starting = @ + 1]
    [] r = "capturing" -> [st EXCEPT !.capturing = @ + 1]
    [] OTHER -> st

\* the session `src` ("ref": the object in recognitionRef, "stale": an
\* older object) is in state s
SessIn(src, s) == IF src = "ref" THEN refRec = s ELSE staleRecs[s] > 0

\* recognitionRef.current after the session `src` moved from `from` to `to`
RefAfter(src, to) == IF src = "ref" THEN to ELSE refRec

StaleAfter(src, from, to) ==
  IF src = "ref" THEN staleRecs
  ELSE IF to = "idle" THEN [staleRecs EXCEPT ![from] = @ - 1]
  ELSE [staleRecs EXCEPT ![from] = @ - 1, ![to] = @ + 1]

\* LockScreen state updates of one handler, followed by the re-render they
\* cause: the useVoiceRecognition effect depends on the callbacks, which are
\* new on every render, so every render puts a new recognizer in the ref.
\* Updates of an unmounted LockScreen are dropped.
LockSet(nStatus, nIcon, nListening, nValue, r, st) ==
  IF currentStage = "lock"
  THEN /\ status' = nStatus
       /\ lockIcon' = nIcon
       /\ isListening' = nListening
       /\ fallbackValue' = nValue
       /\ UNCHANGED <<lockReady, isSupported, showFallback>>
       /\ IF /\ <<nStatus, nIcon, nListening, nValue>>
                   # <<status, lockIcon, isListening, fallbackValue>>
             /\ speechAvailable
          THEN refRec' = "idle" /\ staleRecs' = Retire(r, st)
          ELSE refRec' = r /\ staleRecs' = st
  ELSE /\ UNCHANGED lockVars
       /\ refRec' = r
       /\ staleRecs' = st

\* bookkeeping of the status: n = 0 when onResult or onError sets its
\* message, -1 when any other status is set
Shown(n) == shownFor' = IF currentStage = "lock" THEN n ELSE shownFor

\* bookkeeping of an attempt with the given text
NoteAttempt(text) ==
  /\ lastAttempt' = IF currentStage = "lock" THEN text ELSE lastAttempt
  /\ matchSeen' = (matchSeen \/ Accepted(text))
  /\ matchClock' = IF Accepted(text) /\ currentStage = "lock" /\ matchClock = -1
                   THEN 0 ELSE matchClock

\* ------------------------------------------------------------------------
\* LockScreen
\* ------------------------------------------------------------------------
\* first render's effects: the hook's effect, then the isSupported effect,
\* which still sees isSupported = false
LockScreenMount ==
  /\ currentStage = "lock"
  /\ ~lockReady
  /\ lockReady' = TRUE
  /\ isSupported' = speechAvailable
  /\ refRec' = IF speechAvailable THEN "idle" ELSE "null"
  /\ status' = Unsupported
  /\ showFallback' = TRUE
  /\ fired' = NoFire
  /\ UNCHANGED <<currentStage, speechAvailable, fallbackValue, lockIcon,
                 isListening, staleRecs, timers, letterVars, histVars,
                 funcVars, proposalVars>>

\* handleLockClick -> startListening -> recognition.start()
handleLockClick ==
  /\ currentStage = "lock"
  /\ lockReady
  /\ inputs < MaxInputs
  /\ fired' = NoFire
  /\ IF isSupported /\ ~isListening /\ refRec = "idle"
     THEN /\ refRec' = "starting"
          /\ inputs' = inputs + 1
     ELSE \* nothing to start, or start() throws on a started recognizer
          UNCHANGED <<refRec, inputs>>
  /\ UNCHANGED <<currentStage, speechAvailable, lockVars, staleRecs, timers,
                 letterVars, unlockCalls, matchSeen, matchClock,
                 letterClock, clock, shownFor, lastAttempt, funcVars,
                 proposalVars>>

\* recognition.onstart -> onStart
onStart(src) ==
  /\ SessIn(src, "starting")
  /\ LockSet(ListeningMsg, lockIcon, TRUE, fallbackValue,
             RefAfter(src, "capturing"),
             StaleAfter(src, "starting", "capturing"))
  /\ Shown(-1)
  /\ fired' = NoFire
  /\ UNCHANGED <<currentStage, speechAvailable, timers, letterVars, inputs,
                 unlockCalls, matchSeen, matchClock, letterClock, clock,
                 lastAttempt, funcVars, proposalVars>>

\* recognition.onresult -> onResult(transcript)
onResult(src, transcript) ==
  /\ SessIn(src, "capturing")
  /\ IF ResultMatches(transcript)
     THEN \* handleUnlock
          /\ LockSet(Unlocked, "open", FALSE, fallbackValue,
                     RefAfter(src, "idle"),
                     StaleAfter(src, "capturing", "idle"))
          /\ timers' = Append(timers, Timer("unlock", UnlockDelay))
          /\ Shown(-1)
     ELSE /\ LockSet(Misheard(transcript), lockIcon, FALSE, fallbackValue,
                     RefAfter(src, "idle"),
                     StaleAfter(src, "capturing", "idle"))
          /\ timers' = Append(timers, Timer("misheardReset", MisheardDelay))
          /\ Shown(0)
  /\ NoteAttempt(transcript)
  /\ fired' = NoFire
  /\ UNCHANGED <<currentStage, speechAvailable, letterVars, inputs,
                 unlockCalls, letterClock, clock, funcVars, proposalVars>>

\* recognition.onerror -> onError
onError(src) ==
  /\ \E s \in {"starting", "capturing"} :
        /\ SessIn(src, s)
        /\ LockSet(ErrorMsg, lockIcon, FALSE, fallbackValue,
                   RefAfter(src, "idle"), StaleAfter(src, s, "idle"))
  /\ timers' = Append(timers, Timer("errorReset", ErrorDelay))
  /\ Shown(0)
  /\ fired' = NoFire
  /\ UNCHANGED <<currentStage, speechAvailable, letterVars, inputs,
                 unlockCalls, matchSeen, matchClock, letterClock, clock,
                 lastAttempt, funcVars, proposalVars>>

\* the fallback Input's onChange
setFallbackValue(text) ==
  /\ currentStage = "lock"
  /\ showFallback
  /\ text # fallbackValue
  /\ LockSet(status, lockIcon, isListening, text, refRec, staleRecs)
  /\ fired' = NoFire
  /\ UNCHANGED <<currentStage, speechAvailable, timers, letterVars, histVars,
                 funcVars, proposalVars>>

\* Submit button / Enter key
handleFallbackSubmit ==
  /\ currentStage = "lock"
  /\ showFallback
  /\ inputs < MaxInputs
  /\ inputs' = inputs + 1
  /\ IF FallbackMatches(fallbackValue)
     THEN \* handleUnlock
          /\ LockSet(Unlocked, "open", isListening, fallbackValue,
                     refRec, staleRecs)
          /\ timers' = Append(timers, Timer("unlock", UnlockDelay))
     ELSE /\ LockSet(WrongWord, lockIcon, isListening, fallbackValue,
                     refRec, staleRecs)
          /\ timers' = Append(timers, Timer("wrongReset", WrongWordDelay))
  /\ NoteAttempt(fallbackValue)
  /\ Shown(-1)
  /\ fired' = NoFire
  /\ UNCHANGED <<currentStage, speechAvailable, letterVars, unlockCalls,
                 letterClock, clock, funcVars, proposalVars>>

\* the callback of the three status-reset timers: setStatus(prompt)
ResetStatus ==
  /\ LockSet(Prompt, lockIcon, isListening, fallbackValue, refRec, staleRecs)
  /\ timers' = Remove(timers, FirstDue)
  /\ Shown(-1)
  /\ fired' = Fired(timers[FirstDue], TRUE)
  /\ UNCHANGED <<currentStage, speechAvailable, letterVars, inputs,
                 unlockCalls, matchSeen, matchClock, letterClock, clock,
                 lastAttempt, funcVars, proposalVars>>

\* the 3 s timer of onResult
misheardReset ==
  /\ DueKind("misheardReset")
  /\ ResetStatus

\* the 2 s timer of onError
errorReset ==
  /\ DueKind("errorReset")
  /\ ResetStatus

\* the 2 s timer of handleFallbackSubmit
wrongReset ==
  /\ DueKind("wrongReset")
  /\ ResetStatus

\* ------------------------------------------------------------------------
\* BackgroundMusic
\* ------------------------------------------------------------------------
\* the re-arm timer of playMelody; its callback closes over the isPlaying
\* prop of the render that called startMusic
RearmTimer(stage, playing) ==
  [kind |-> "rearm", rem |-> PassPeriod, born |-> stage, cap |-> playing]

\* the isPlaying the re-arm callback tests: the captured one
RearmGuard(t) == t.cap

\* startMusic without the test of the context's state
startMusicNoResume(c, playing, tms, ws, stage) ==
  [t |-> Append(tms, RearmTimer(stage, playing)), w |-> ws]

\* startMusic, called by the [isPlaying, isSupported] effect of a render with
\* isPlaying = playing; yields the timers and the waiters afterwards
startMusic(c, playing, tms, ws, stage) ==
  IF c = "suspended"
  THEN [t |-> tms, w |-> [ws EXCEPT !.startMusic = @ + 1]]
  ELSE [t |-> Append(tms, RearmTimer(stage, playing)), w |-> ws]

\* an effect that also clears the reveal interval
MusicEffectClearsReveal(c, p, tms, ws, stage) ==
  [t |-> SelectSeq(tms, LAMBDA x : x.kind # "reveal"), w |-> ws]

\* the effect that follows setIsPlaying(p): stopMusic() of the previous
\* render's cleanup and of the else branch does nothing, oscillatorRef is
\* never assigned
MusicEffect(c, p, tms, ws, stage) ==
  IF p = isPlaying \/ c \in {"none", "closed"}
  THEN [t |-> tms, w |-> ws]
  ELSE IF p THEN startMusic(c, p, tms, ws, stage)
  ELSE [t |-> tms, w |-> ws]

\* ------------------------------------------------------------------------
\* LoveLetter
\* ------------------------------------------------------------------------
\* mount of LoveLetter and of its BackgroundMusic: the audio context is
\* created (c: what the platform gives), the effect runs with isPlaying =
\* false, then the music timer and the reveal interval are started
MountLetter(c, tms) ==
  /\ visibleParagraphs' = 0
  /\ isPlaying' = FALSE
  /\ ctx' = c
  /\ resumeWaiters' = NoWaiters
  /\ letterClock' = 0
  /\ timers' = tms \o << [kind |-> "musicTimer", rem |-> MusicStartDelay,
                          born |-> "letter", cap |-> FALSE],
                         [kind |-> "reveal", rem |-> RevealPeriod,
                          born |-> "letter", cap |-> FALSE] >>

\* a cleanup that leaves the audio context open
CloseContextLeak(c) == c

\* cleanup of BackgroundMusic's mount effect:
\* if (audioContextRef.current) audioContextRef.current.close()
CloseContext(c) == IF c = "none" THEN "none" ELSE "closed"

\* cleanups of LoveLetter's mount effect: clearInterval(timer),
\* clearTimeout(musicTimer)
LetterCleanup(tms) ==
  SelectSeq(tms, LAMBDA t : t.kind \notin {"musicTimer", "reveal"})

\* the 500 ms timer: setIsPlaying(true)
musicTimer ==
  /\ DueKind("musicTimer")
  /\ LET m == MusicEffect(ctx, TRUE, Remove(timers, FirstDue),
                          resumeWaiters, currentStage)
     IN /\ timers' = m.t
        /\ resumeWaiters' = m.w
  /\ isPlaying' = TRUE
  /\ fired' = Fired(timers[FirstDue], TRUE)
  /\ UNCHANGED <<currentStage, speechAvailable, lockVars, recVars,
                 visibleParagraphs, ctx, histVars, funcVars, proposalVars>>

\* the updater with an off-by-one bound
RevealNextOffByOne(prev) == IF prev <= ParagraphCount THEN prev + 1 ELSE prev

\* one tick of the reveal interval: the updater of setVisibleParagraphs
RevealNext(prev) == IF prev < ParagraphCount THEN prev + 1 ELSE prev

\* an interval that restarts late by the delay of the music timer
RevealRearmDrift(t) == [t EXCEPT !.rem = RevealPeriod + MusicStartDelay]

\* setInterval(..., 1200): the interval timer t repeats with its period
RevealRearm(t) == [t EXCEPT !.rem = RevealPeriod]

\* an updater that cancels the interval in the tick that reaches the count
RevealCancelsAtCount(prev) == ~(prev + 1 < ParagraphCount)

\* the updater's clearInterval(timer) is reached when prev < length fails
RevealCancels(prev) == ~(prev < ParagraphCount)

reveal ==
  /\ DueKind("reveal")
  /\ visibleParagraphs' = RevealNext(visibleParagraphs)
  /\ timers' = IF RevealCancels(visibleParagraphs)
               THEN Remove(timers, FirstDue)   \* clearInterval(timer)
               ELSE Append(Remove(timers, FirstDue),
                           RevealRearm(timers[FirstDue]))
  /\ fired' = Fired(timers[FirstDue], TRUE)
  /\ UNCHANGED <<currentStage, speechAvailable, lockVars, recVars, isPlaying,
                 ctx, resumeWaiters, histVars, funcVars, proposalVars>>

\* BackgroundMusic.handleToggle -> LoveLetter.toggleMusic
handleToggle ==
  /\ currentStage = "letter"
  /\ ctx # "none"
  /\ inputs < MaxInputs
  /\ inputs' = inputs + 1
  /\ IF ~isPlaying /\ ctx = "suspended"
     THEN /\ resumeWaiters' = [resumeWaiters EXCEPT !.handleToggle = @ + 1]
          /\ UNCHANGED <<isPlaying, timers>>
     ELSE LET m == MusicEffect(ctx, ~isPlaying, timers, resumeWaiters,
                               currentStage)
          IN /\ isPlaying' = ~isPlaying
             /\ timers' = m.t
             /\ resumeWaiters' = m.w
  /\ fired' = NoFire
  /\ UNCHANGED <<currentStage, speechAvailable, lockVars, recVars,
                 visibleParagraphs, ctx, unlockCalls, matchSeen,
                 matchClock, letterClock, clock, shownFor, lastAttempt,
                 funcVars, proposalVars>>

RECURSIVE Rearms(_, _, _)
Rearms(n, stage, playing) ==
  IF n = 0 THEN <<>>
  ELSE <<RearmTimer(stage, playing)>> \o Rearms(n - 1, stage, playing)

\* audioContext.resume() fulfils: every suspended call continues.
\* startMusic goes on to playMelody; handleToggle goes on to onToggle(), the
\* toggleMusic of the render it came from (isPlaying = false).
resumeResolved ==
  /\ currentStage = "letter"
  /\ resumeWaiters # NoWaiters
  /\ ctx = "suspended"
  /\ ctx' = "running"
  /\ resumeWaiters' = NoWaiters
  /\ LET base == timers \o Rearms(resumeWaiters.startMusic, currentStage, TRUE)
     IN IF resumeWaiters.handleToggle > 0
        THEN /\ isPlaying' = TRUE
             /\ timers' = MusicEffect("running", TRUE, base, NoWaiters,
                                      currentStage).t
        ELSE /\ UNCHANGED isPlaying
             /\ timers' = base
  /\ fired' = NoFire
  /\ UNCHANGED <<currentStage, speechAvailable, lockVars, recVars,
                 visibleParagraphs, histVars, funcVars, proposalVars>>

\* audioContext.resume() rejects: every suspended call catches the error.
\* startMusic logs and returns; handleToggle logs and goes on to onToggle().
resumeRejected ==
  /\ currentStage = "letter"
  /\ resumeWaiters # NoWaiters
  /\ IF resumeWaiters.handleToggle > 0
     THEN LET m == MusicEffect(ctx, TRUE, timers, NoWaiters, currentStage)
          IN /\ isPlaying' = TRUE
             /\ timers' = m.t
             /\ resumeWaiters' = m.w
     ELSE /\ resumeWaiters' = NoWaiters
          /\ UNCHANGED <<isPlaying, timers>>
  /\ fired' = NoFire
  /\ UNCHANGED <<currentStage, speechAvailable, lockVars, recVars,
                 visibleParagraphs, ctx, histVars, funcVars, proposalVars>>

\* the re-arm timer of playMelody: if (isPlaying) playMelody()
rearm ==
  /\ DueKind("rearm")
  /\ LET t == timers[FirstDue]
     IN /\ timers' = IF RearmGuard(t)
                     THEN Append(Remove(timers, FirstDue),
                                 RearmTimer(currentStage, t.cap))
                     ELSE Remove(timers, FirstDue)
        /\ fired' = Fired(t, RearmGuard(t))
  /\ UNCHANGED <<currentStage, speechAvailable, lockVars, recVars,
                 letterVars, histVars, funcVars, proposalVars>>

\* the state of a ProposalScreen at its first render, which is also how the
\* model holds the state of a ProposalScreen that is not mounted
ProposalFirstRender ==
  /\ proposalReady' = FALSE
  /\ showHint' = FALSE
  /\ showProposal' = FALSE
  /\ showButtons' = FALSE
  /\ celebrationMode' = FALSE
  /\ buttonPosition' = StartPosition
  /\ proposalLog' = [proposalLog EXCEPT !.declared = -1]
  /\ UNCHANGED particles

\* unmount of ProposalScreen: the effect cleanup clears the hint timer; the
\* timers of handleRevealProposal and handleNo stay pending, their state
\* updates go to a component that is gone; the particle timers act on
\* document.body
ProposalCleanup(tms) ==
  LET kept == SelectSeq(tms, LAMBDA t : t.kind # "hint")
  IN [i \in DOMAIN kept |->
        IF kept[i].kind \in {"showButtons", "relocate"}
        THEN [kept[i] EXCEPT !.born = "unmounted"]
        ELSE kept[i]]

\* a guard that shows the continue button one paragraph early
ContinueShownEarly(n) == n >= ParagraphCount - 1

\* the render guard of the signature and the continue button:
\* visibleParagraphs >= letterParagraphs.length
ContinueShown(n) == n >= ParagraphCount

\* the continue button: onRevealProposal -> setCurrentStage('proposal')
handleRevealProposal ==
  /\ currentStage = "letter"
  /\ ContinueShown(visibleParagraphs)
  /\ currentStage' = "proposal"
  /\ timers' = LetterCleanup(timers)
  /\ visibleParagraphs' = 0
  /\ isPlaying' = FALSE
  /\ ctx' = CloseContext(ctx)
  /\ resumeWaiters' = NoWaiters
  /\ letterClock' = 0
  /\ fired' = NoFire
  /\ ProposalFirstRender
  /\ UNCHANGED <<speechAvailable, lockVars, recVars, inputs,
                 unlockCalls, matchSeen, matchClock, clock, shownFor,
                 lastAttempt, funcVars>>

\* ------------------------------------------------------------------------
\* CombinedApp
\* ------------------------------------------------------------------------
\* the 1.5 s timer of LockScreen.handleUnlock: onUnlock() ->
\* setCurrentStage('letter')
unlock ==
  /\ DueKind("unlock")
  /\ unlockCalls' = unlockCalls + 1
  /\ fired' = Fired(timers[FirstDue], TRUE)
  /\ IF currentStage = "letter"
     THEN /\ timers' = Remove(timers, FirstDue)
          /\ UNCHANGED <<currentStage, lockVars, recVars, letterVars,
                         letterClock, proposalVars>>
     ELSE /\ currentStage' = "letter"
          /\ \E c \in {"none", "suspended", "running"} :
                MountLetter(c, IF currentStage = "proposal"
                               THEN ProposalCleanup(Remove(timers, FirstDue))
                               ELSE Remove(timers, FirstDue))
          \* a ProposalScreen that was shown unmounts
          /\ ProposalFirstRender
          \* LockScreen unmounts without any cleanup
          /\ lockReady' = FALSE
          /\ isSupported' = FALSE
          /\ showFallback' = FALSE
          /\ fallbackValue' = <<>>
          /\ status' = Prompt
          /\ lockIcon' = "locked"
          /\ isListening' = FALSE
          /\ refRec' = "null"
          /\ staleRecs' = Retire(refRec, staleRecs)
  /\ shownFor' = -1
  /\ lastAttempt' = <<>>
  /\ UNCHANGED <<speechAvailable, inputs, matchSeen,
                 matchClock, clock, funcVars>>

\* ------------------------------------------------------------------------
\* ProposalScreen
\* ------------------------------------------------------------------------
\* values of Math.random(), in thousandths
Randoms == {0, 999}

\* a position drawn over the whole width
PlaceWide(r) == r * 100

\* Math.random() * 80 + 10, in thousandths of a percent
Place(r) == r * 80 + 10000

\* the component that started timer t is still the one shown
Live(t) == t.born = "proposal" /\ currentStage = "proposal"

\* the mount effect: timer1 = setTimeout(() => setShowHint(true), 1000)
ProposalScreenMount ==
  /\ currentStage = "proposal"
  /\ ~proposalReady
  /\ proposalReady' = TRUE
  /\ timers' = Append(timers, Timer("hint", HintDelay))
  /\ fired' = NoFire
  /\ UNCHANGED <<currentStage, speechAvailable, lockVars, recVars, letterVars,
                 histVars, funcVars, showHint, showProposal, showButtons,
                 celebrationMode, buttonPosition, particles, proposalLog>>

\* timer1: setShowHint(true)
hintTimer ==
  /\ DueKind("hint")
  /\ showHint' = TRUE
  /\ timers' = Remove(timers, FirstDue)
  /\ fired' = Fired(timers[FirstDue], TRUE)
  /\ UNCHANGED <<currentStage, speechAvailable, lockVars, recVars, letterVars,
                 histVars, funcVars, proposalReady, showProposal,
                 showButtons, celebrationMode, buttonPosition, particles,
                 proposalLog>>

\* a hint button that shows the decision buttons at once
handleRevealProposalWithButtons ==
  /\ currentStage = "proposal"
  /\ showHint /\ ~showProposal
  /\ showHint' = FALSE
  /\ showProposal' = TRUE
  /\ showButtons' = TRUE
  /\ proposalLog' = [proposalLog EXCEPT !.declared = 0]
  /\ fired' = NoFire
  /\ UNCHANGED <<currentStage, speechAvailable, lockVars, recVars, letterVars,
                 histVars, funcVars, proposalReady, timers,
                 celebrationMode, buttonPosition, particles>>

\* ProposalScreen.handleRevealProposal, the button of the hint panel
ProposalScreen_handleRevealProposal ==
  /\ currentStage = "proposal"
  /\ showHint /\ ~showProposal
  /\ showHint' = FALSE
  /\ showProposal' = TRUE
  /\ timers' = Append(timers, Timer("showButtons", ButtonsDelay))
  /\ proposalLog' = [proposalLog EXCEPT !.declared = 0]
  /\ fired' = NoFire
  /\ UNCHANGED <<currentStage, speechAvailable, lockVars, recVars, letterVars,
                 histVars, funcVars, proposalReady, showButtons,
                 celebrationMode, buttonPosition, particles>>

\* the 2 s timer of handleRevealProposal: setShowButtons(true)
showButtonsTimer ==
  /\ DueKind("showButtons")
  /\ showButtons' = IF Live(timers[FirstDue]) THEN TRUE ELSE showButtons
  /\ timers' = Remove(timers, FirstDue)
  /\ fired' = Fired(timers[FirstDue], TRUE)
  /\ UNCHANGED <<currentStage, speechAvailable, lockVars, recVars, letterVars,
                 histVars, funcVars, proposalReady, showHint, showProposal,
                 celebrationMode, buttonPosition, particles, proposalLog>>

\* particle timers that are all due at once
ParticleTimersAtOnce ==
  [i \in 1..ParticleCount |->
     [kind |-> "particle", rem |-> 0, born |-> "proposal", cap |-> FALSE]]

\* the particle timers of handleYes: setTimeout(..., i * 10), i = 0..99
ParticleTimers ==
  [i \in 1..ParticleCount |->
     [kind |-> "particle", rem |-> (i - 1) * ParticleStep,
      born |-> "proposal", cap |-> FALSE]]

\* the accept button
handleYes ==
  /\ currentStage = "proposal"
  /\ showButtons /\ ~celebrationMode
  /\ celebrationMode' = TRUE
  /\ showButtons' = FALSE
  /\ timers' = timers \o ParticleTimers
  /\ proposalLog' = [proposalLog EXCEPT !.accepted = 0]
  /\ fired' = NoFire
  /\ UNCHANGED <<currentStage, speechAvailable, lockVars, recVars, letterVars,
                 histVars, funcVars, proposalReady, showHint, showProposal,
                 buttonPosition, particles>>

\* a particle timer: the element is appended to document.body and its
\* removal is scheduled
particleSpawn ==
  /\ DueKind("particle")
  /\ particles' = particles + 1
  /\ proposalLog' = [proposalLog EXCEPT !.created = @ + 1]
  /\ timers' = Append(Remove(timers, FirstDue),
                      [kind |-> "particleRemove", rem |-> ParticleLife,
                       born |-> timers[FirstDue].born, cap |-> FALSE])
  /\ fired' = Fired(timers[FirstDue], TRUE)
  /\ UNCHANGED <<currentStage, speechAvailable, lockVars, recVars, letterVars,
                 histVars, funcVars, proposalReady, showHint, showProposal,
                 showButtons, celebrationMode, buttonPosition>>

\* setTimeout(() => particle.remove(), 2000)
particleRemove ==
  /\ DueKind("particleRemove")
  /\ particles' = particles - 1
  /\ proposalLog' = [proposalLog EXCEPT !.removed = @ + 1]
  /\ timers' = Remove(timers, FirstDue)
  /\ fired' = Fired(timers[FirstDue], TRUE)
  /\ UNCHANGED <<currentStage, speechAvailable, lockVars, recVars, letterVars,
                 histVars, funcVars, proposalReady, showHint, showProposal,
                 showButtons, celebrationMode, buttonPosition>>

\* the evasive button
handleNo ==
  /\ currentStage = "proposal"
  /\ showButtons /\ ~celebrationMode
  /\ inputs < MaxInputs
  /\ inputs' = inputs + 1
  /\ \E rx \in Randoms, ry \in Randoms :
        buttonPosition' = [x |-> Place(rx), y |-> Place(ry)]
  /\ timers' = Append(timers, Timer("relocate", RelocateDelay))
  /\ fired' = NoFire
  /\ UNCHANGED <<currentStage, speechAvailable, lockVars, recVars, letterVars,
                 unlockCalls, matchSeen, matchClock, letterClock, clock,
                 shownFor, lastAttempt, funcVars, proposalReady, showHint,
                 showProposal, showButtons, celebrationMode, particles,
                 proposalLog>>

\* the 1 s timer of handleNo: the button is placed once more
relocate ==
  /\ DueKind("relocate")
  /\ IF Live(timers[FirstDue])
     THEN \E rx \in Randoms, ry \in Randoms :
             buttonPosition' = [x |-> Place(rx), y |-> Place(ry)]
     ELSE UNCHANGED buttonPosition
  /\ timers' = Remove(timers, FirstDue)
  /\ fired' = Fired(timers[FirstDue], TRUE)
  /\ UNCHANGED <<currentStage, speechAvailable, lockVars, recVars, letterVars,
                 histVars, funcVars, proposalReady, showHint, showProposal,
                 showButtons, celebrationMode, particles, proposalLog>>

\* ------------------------------------------------------------------------
\* Time
\* ------------------------------------------------------------------------
\* the reveal has certainly ended by then
ClockCap == (ParagraphCount + 1) * RevealPeriod + 1

Min(a, b) == IF a <= b THEN a ELSE b

\* time to the nearest deadline
MinRem(tms) ==
  LET first == CHOOSE i \in DOMAIN tms :
                  \A j \in DOMAIN tms : tms[i].rem <= tms[j].rem
  IN tms[first].rem

\* Time passes up to the next instant at which a timer is due (one second
\* when none is pending): the user and the platform act at the instants at
\* which timers expire, before or after the callbacks due then.
Pace == IF timers = <<>> THEN 100 ELSE MinRem(timers)

Tick ==
  LET pace == Pace IN
  /\ Due = {}
  /\ timers # <<>> \/ currentStage = "letter"
  /\ currentStage = "lock" \/ clock + pace <= Horizon
  /\ timers' = [i \in DOMAIN timers |-> [timers[i] EXCEPT !.rem = @ - pace]]
  /\ matchClock' = IF currentStage = "lock" /\ matchClock >= 0
                   THEN matchClock + pace ELSE matchClock
  /\ letterClock' = IF currentStage = "letter"
                    THEN Min(letterClock + pace, ClockCap) ELSE letterClock
  /\ clock' = IF currentStage = "lock" THEN clock ELSE clock + pace
  /\ shownFor' = IF currentStage = "lock" /\ shownFor >= 0
                 THEN shownFor + pace ELSE shownFor
  /\ proposalLog' =
       [proposalLog EXCEPT
          !.declared = IF @ >= 0 THEN @ + pace ELSE @,
          !.accepted = IF @ >= 0 THEN @ + pace ELSE @]
  /\ fired' = NoFire
  /\ UNCHANGED <<currentStage, speechAvailable, lockVars, recVars,
                 letterVars, inputs, unlockCalls, matchSeen, lastAttempt,
                 funcVars, proposalReady, showHint, showProposal,
                 showButtons, celebrationMode, buttonPosition, particles>>

Next ==
  \/ LockScreenMount
  \/ handleLockClick
  \/ \E src \in {"ref", "stale"} : onStart(src)
  \/ \E src \in {"ref", "stale"}, t \in Texts : onResult(src, t)
  \/ \E src \in {"ref", "stale"} : onError(src)
  \/ \E t \in Texts \cup {<<>>} : setFallbackValue(t)
  \/ handleFallbackSubmit
  \/ misheardReset
  \/ errorReset
  \/ wrongReset
  \/ unlock
  \/ musicTimer
  \/ reveal
  \/ handleToggle
  \/ resumeResolved
  \/ resumeRejected
  \/ rearm
  \/ handleRevealProposal
  \/ Tick

Spec == Init /\ [][Next]_vars

\* ------------------------------------------------------------------------
\* The phrase tests on their own
\* ------------------------------------------------------------------------
Alphabet == {"r", "a", "d", "h", "R", "A", "D", "H", "U0930", "U093E", "U0927"}

InitMatch ==
  /\ \E k \in 0..MaxLen : mText \in [1..k -> Alphabet]
  /\ mResult = NoResult
  /\ currentTime = 0
  /\ noteIndex = -1
  /\ oscillators = <<>>
  /\ passStart = 0
  /\ passes = 0
  /\ currentStage = "lock"
  /\ speechAvailable = TRUE
  /\ lockReady = FALSE
  /\ isSupported = FALSE
  /\ showFallback = FALSE
  /\ fallbackValue = <<>>
  /\ status = Prompt
  /\ lockIcon = "locked"
  /\ isListening = FALSE
  /\ refRec = "null"
  /\ staleRecs = NoRecs
  /\ timers = <<>>
  /\ visibleParagraphs = 0
  /\ isPlaying = FALSE
  /\ ctx = "none"
  /\ resumeWaiters = NoWaiters
  /\ inputs = 0
  /\ unlockCalls = 0
  /\ matchSeen = FALSE
  /\ matchClock = -1
  /\ letterClock = 0
  /\ clock = 0
  /\ shownFor = -1
  /\ lastAttempt = <<>>
  /\ fired = NoFire
  /\ proposalReady = FALSE
  /\ showHint = FALSE
  /\ showProposal = FALSE
  /\ showButtons = FALSE
  /\ celebrationMode = FALSE
  /\ buttonPosition = StartPosition
  /\ particles = 0
  /\ proposalLog = NoLog

\* both tests applied to the text
TestPhrase ==
  /\ ~mResult.done
  /\ mResult' = [done |-> TRUE, voice |-> ResultMatches(mText),
                 typed |-> FallbackMatches(mText)]
  /\ UNCHANGED <<mText, currentStage, speechAvailable, lockVars, recVars,
                 timers, letterVars, histVars, fired, proposalVars,
                 melodyVars>>

NextMatch == TestPhrase

SpecMatch == InitMatch /\ [][NextMatch]_vars

\* ------------------------------------------------------------------------
\* The note schedule of one call of startMusic
\* ------------------------------------------------------------------------
\* values of audioContext.currentTime when startMusic reads it, in units
StartTimes == {0, 37, 250, 1320}

\* one call of playNote: the oscillator it creates, starts and stops;
\* volume in tenths
playNote(frequency, startTime, duration, volume) ==
  [frequency |-> frequency, startTime |-> startTime, duration |-> duration,
   volume |-> volume]

\* index % 3 === 0
HarmonyAt(index) == index % 3 = 0

\* an octave note under every fourth note from the second on
OctaveAtOffset(index) == index % 4 = 1

\* index % 4 === 0
OctaveAt(index) == index % 4 = 0

\* let currentTime = audioContextRef.current.currentTime
InitMelody ==
  /\ currentTime \in StartTimes
  /\ noteIndex = -1
  /\ oscillators = <<>>
  /\ passStart = 0
  /\ passes = 0
  /\ mText = <<>>
  /\ mResult = NoResult
  /\ currentStage = "letter"
  /\ speechAvailable = TRUE
  /\ lockReady = FALSE
  /\ isSupported = FALSE
  /\ showFallback = FALSE
  /\ fallbackValue = <<>>
  /\ status = Prompt
  /\ lockIcon = "locked"
  /\ isListening = FALSE
  /\ refRec = "null"
  /\ staleRecs = NoRecs
  /\ timers = <<>>
  /\ visibleParagraphs = 0
  /\ isPlaying = TRUE
  /\ ctx = "running"
  /\ resumeWaiters = NoWaiters
  /\ inputs = 0
  /\ unlockCalls = 1
  /\ matchSeen = TRUE
  /\ matchClock = UnlockDelay
  /\ letterClock = 0
  /\ clock = 0
  /\ shownFor = -1
  /\ lastAttempt = <<>>
  /\ fired = NoFire
  /\ proposalReady = FALSE
  /\ showHint = FALSE
  /\ showProposal = FALSE
  /\ showButtons = FALSE
  /\ celebrationMode = FALSE
  /\ buttonPosition = StartPosition
  /\ particles = 0
  /\ proposalLog = NoLog

\* playMelody is called, by startMusic or by the re-arm timer of the pass
\* before, whose callback sees isPlaying = true
playMelody ==
  /\ noteIndex \in {-1, Len(melody)}
  /\ passes < MaxPasses
  /\ noteIndex' = 0
  /\ oscillators' = <<>>
  /\ passStart' = currentTime
  /\ passes' = passes + 1
  /\ UNCHANGED <<currentTime, matchVars, currentStage, speechAvailable,
                 lockVars, recVars, timers, letterVars, histVars, fired,
                 proposalVars>>

\* one turn of melody.forEach
forEachNote ==
  /\ noteIndex \in 0..(Len(melody) - 1)
  /\ LET note == melodyNote[noteIndex + 1]
         duration == melody[noteIndex + 1]
         main == <<playNote(note, currentTime, duration, 10)>>
         harmony == IF HarmonyAt(noteIndex)
                    THEN <<playNote((note * 3) \div 2, currentTime,
                                    duration, 3)>>
                    ELSE <<>>
         octave == IF OctaveAt(noteIndex)
                   THEN <<playNote(note * 2, currentTime + 10,
                                   (duration * 8) \div 10, 2)>>
                   ELSE <<>>
     IN /\ oscillators' = oscillators \o main \o harmony \o octave
        /\ currentTime' = currentTime + duration
  /\ noteIndex' = noteIndex + 1
  /\ UNCHANGED <<passStart, passes, matchVars, currentStage, speechAvailable,
                 lockVars, recVars, timers, letterVars, histVars, fired,
                 proposalVars>>

NextMelody == playMelody \/ forEachNote

SpecMelody == InitMelody /\ [][NextMelody]_vars

\* ------------------------------------------------------------------------
\* ProposalScreen from its first render
\* ------------------------------------------------------------------------
\* The Proposal stage has just been entered.  Of what went before, a capture
\* session started in the Lock stage may still be open, the recognizer being
\* never stopped, and the audio context was closed if one had been created.
InitProposal ==
  /\ currentStage = "proposal"
  /\ speechAvailable = TRUE
  /\ staleRecs \in {NoRecs, [starting |-> 0, capturing |-> 1]}
  /\ ctx = "closed"
  /\ lockReady = FALSE
  /\ isSupported = FALSE
  /\ showFallback = FALSE
  /\ fallbackValue = <<>>
  /\ status = Prompt
  /\ lockIcon = "locked"
  /\ isListening = FALSE
  /\ refRec = "null"
  /\ timers = <<>>
  /\ visibleParagraphs = 0
  /\ isPlaying = FALSE
  /\ resumeWaiters = NoWaiters
  \* the attempt that unlocked, and the tap that started the open session
  /\ inputs = IF staleRecs = NoRecs THEN 1 ELSE 2
  /\ unlockCalls = 1
  /\ matchSeen = TRUE
  /\ matchClock = UnlockDelay
  /\ letterClock = 0
  /\ clock = 0
  /\ shownFor = -1
  /\ lastAttempt = <<>>
  /\ fired = NoFire
  /\ proposalReady = FALSE
  /\ showHint = FALSE
  /\ showProposal = FALSE
  /\ showButtons = FALSE
  /\ celebrationMode = FALSE
  /\ buttonPosition = StartPosition
  /\ particles = 0
  /\ proposalLog = NoLog
  /\ mText = <<>>
  /\ mResult = NoResult
  /\ currentTime = 0
  /\ noteIndex = -1
  /\ oscillators = <<>>
  /\ passStart = 0
  /\ passes = 0

\* instants, counted from the entry of the stage, at which the open session
\* delivers its result or error: on entry, and when the buttons can first
\* be shown
DeliveryTimes == {0, HintDelay + ButtonsDelay}

NextProposal ==
  \/ ProposalScreenMount
  \/ hintTimer
  \/ ProposalScreen_handleRevealProposal
  \/ showButtonsTimer
  \/ handleYes
  \/ particleSpawn
  \/ particleRemove
  \/ handleNo
  \/ relocate
  \/ clock \in DeliveryTimes /\ \E t \in Texts : onResult("stale", t)
  \/ clock \in DeliveryTimes /\ onError("stale")
  \/ misheardReset
  \/ errorReset
  \/ unlock
  \* the mount effect runs right after the first render, before time passes
  \/ (currentStage = "proposal" => proposalReady) /\ Tick

SpecProposal == InitProposal /\ [][NextProposal]_vars

\* ------------------------------------------------------------------------
\* ProposalScreen from its first render, no capture session being open
\* ------------------------------------------------------------------------
InitProposalScreen == InitProposal /\ staleRecs = NoRecs

\* The event loop runs every callback that is due, and time passes.
TimerStep ==
  \/ hintTimer
  \/ showButtonsTimer
  \/ particleSpawn
  \/ particleRemove
  \/ relocate
  \/ proposalReady /\ Tick

NextProposalScreen ==
  \/ ProposalScreenMount
  \/ ProposalScreen_handleRevealProposal
  \/ handleYes
  \/ handleNo
  \/ TimerStep

\* the mount effect runs after the first render; a due callback is run
SpecProposalScreen ==
  /\ InitProposalScreen
  /\ [][NextProposalScreen]_vars
  /\ WF_vars(ProposalScreenMount)
  /\ WF_vars(TimerStep)

\* ------------------------------------------------------------------------
\* Properties
\* ------------------------------------------------------------------------
RearmCount == Cardinality({i \in DOMAIN timers : timers[i].kind = "rearm"})

RevealDue == \E i \in Due : timers[i].kind = "reveal"

\* C1: the stage only moves lock -> letter -> proposal: a step never takes
\* it from letter back to lock, nor from proposal to letter or lock.
StageOneWay ==
  [][ /\ currentStage = "letter" => currentStage' # "lock"
      /\ currentStage = "proposal" => currentStage' = "proposal" ]_vars

\* C2: the stage has left lock only if some unlock attempt (transcript or
\* typed text) contained an accepted phrase; attempts that contain none, and
\* recognition errors, leave the stage at lock.
UnlockOnlyOnMatch == currentStage # "lock" => matchSeen

\* C2 witness: every input was spent on attempts without an accepted phrase,
\* all their timers have expired, and the stage is still lock
NonMatchesStayLocked ==
  /\ currentStage = "lock"
  /\ ~matchSeen
  /\ inputs = MaxInputs
  /\ timers = <<>>
  /\ status = Prompt

\* C3: after the first matching attempt made in the lock stage the stage
\* becomes letter exactly 1.5 s later, and onUnlock is called exactly once
\* whatever else is tapped, typed or recognized.
UnlockExactlyOnce ==
  /\ (currentStage = "lock" /\ matchClock >= 0) => matchClock <= UnlockDelay
  /\ currentStage # "lock" => matchClock = UnlockDelay
  /\ unlockCalls <= 1

\* C4: each phrase test is true exactly for the texts that contain an
\* accepted phrase in some mixture of cases, and false for the empty text.
PhraseTestCorrect ==
  mResult.done =>
    /\ mResult.voice = Accepted(mText)
    /\ mResult.typed = Accepted(mText)
    /\ mText = <<>> => (~mResult.voice /\ ~mResult.typed)

\* C4 witness: a mixed-case phrase has been tested and accepted
MixedCaseAccepted ==
  /\ mResult.done
  /\ mText = <<"r", "A", "D", "h", "A">>
  /\ mResult.voice
  /\ mResult.typed

\* C5: while the first LoveLetter (hence a single audio engine) is shown, at
\* most one re-arm timer of the melody loop is pending.
SingleLoop ==
  (currentStage = "letter" /\ unlockCalls = 1) => RearmCount <= 1

\* C6: while the first LoveLetter is shown, a re-arm timer that fires
\* schedules the next pass only if the engine is playing at that moment.
StopEndsLoop ==
  (/\ fired.kind = "rearm"
   /\ fired.ran
   /\ currentStage = "letter"
   /\ unlockCalls = 1) => isPlaying

\* C7: in the letter stage visibleParagraphs is in 0..ParagraphCount, is 0
\* on entry, and changes only by +1, in a step of the reveal timer.
RevealStepwise ==
  /\ [](visibleParagraphs \in 0..ParagraphCount)
  /\ []((currentStage = "letter" /\ letterClock = 0) => visibleParagraphs = 0)
  /\ [][ (/\ currentStage = "letter"
          /\ currentStage' = "letter"
          /\ visibleParagraphs' # visibleParagraphs)
         => (/\ visibleParagraphs' = visibleParagraphs + 1
             /\ fired'.kind = "reveal") ]_vars

\* C7 witness: the tenth tick has just revealed the last paragraph
LastParagraphRevealed ==
  /\ currentStage = "letter"
  /\ visibleParagraphs = ParagraphCount
  /\ fired.kind = "reveal"

\* C8: in the letter stage the number of visible paragraphs is the number of
\* 1.2 s periods elapsed since entry, up to the paragraph count: it is the
\* full count from 12 s after entry on and never before, whatever happens to
\* the music in between.
RevealOnSchedule ==
  currentStage = "letter" =>
    visibleParagraphs =
      Min(ParagraphCount,
          (letterClock \div RevealPeriod) - (IF RevealDue THEN 1 ELSE 0))

\* C8 witness: 12 s after entry all paragraphs are visible, the music having
\* been started and paused on the way
FullRevealAfterToggle ==
  /\ currentStage = "letter"
  /\ letterClock = ParagraphCount * RevealPeriod
  /\ visibleParagraphs = ParagraphCount
  /\ ctx = "running"
  /\ ~isPlaying

\* C9: a timer never fires in a stage other than the one it was started in.
NoTimerAfterExit == fired.kind # "none" => fired.born = fired.at

\* C10: once the letter stage is left, no reveal tick and no music-start
\* timer fires, none is pending, the music is not playing or being started,
\* and no re-arm timer schedules a further pass.
LetterExitStopsAll ==
  /\ fired.kind \in {"reveal", "musicTimer"} => fired.at = "letter"
  /\ (fired.kind = "rearm" /\ fired.ran) => fired.at = "letter"
  /\ currentStage # "letter" =>
       /\ ~isPlaying
       /\ resumeWaiters = NoWaiters
       /\ \A i \in DOMAIN timers : timers[i].kind \notin {"reveal", "musicTimer"}

InRange(p) == p.x \in 10000..90000 /\ p.y \in 10000..90000

\* C11: the evasive button's position is within [10%, 90%] on both axes in
\* every state; each activation of it places it at a newly drawn position of
\* that range and leaves celebrationMode as it was; celebrationMode becomes
\* true only by the accept button, in a step that is no activation of the
\* evasive button.
EvasiveInRange ==
  /\ [](InRange(buttonPosition))
  /\ [][ (currentStage = "proposal" /\ inputs' = inputs + 1)
         => (/\ \E rx \in Randoms, ry \in Randoms :
                   buttonPosition' = [x |-> Place(rx), y |-> Place(ry)]
             /\ celebrationMode' = celebrationMode) ]_vars
  /\ [][ (celebrationMode' /\ ~celebrationMode)
         => (showButtons /\ ~showButtons' /\ inputs' = inputs) ]_vars

\* C11 witness: the button has been activated and its delayed second
\* placement has just happened, the outcome still pending
EvasiveMovedAgain ==
  /\ currentStage = "proposal"
  /\ fired.kind = "relocate"
  /\ buttonPosition # StartPosition
  /\ showButtons
  /\ ~celebrationMode

\* C12: once celebrationMode is true it stays true and the buttons stay
\* hidden, whatever timer fires or event arrives afterwards.
AcceptedIsTerminal ==
  [][ celebrationMode => (celebrationMode' /\ ~showButtons') ]_vars

\* C13: in the lock stage the message of a non-matching transcript is shown
\* for at most 3 s and that of a recognition error for at most 2 s, and the
\* status goes from such a message to the prompt exactly 3 s, respectively
\* 2 s, after the result or error that set it, also when reset timers of
\* earlier attempts are pending.
StatusResetOnTime ==
  /\ []((currentStage = "lock" /\ status.msg = "misheard")
          => shownFor \in 0..MisheardDelay)
  /\ []((currentStage = "lock" /\ status.msg = "error")
          => shownFor \in 0..ErrorDelay)
  /\ [][ (currentStage = "lock" /\ status.msg = "misheard" /\ status' = Prompt)
         => shownFor = MisheardDelay ]_vars
  /\ [][ (currentStage = "lock" /\ status.msg = "error" /\ status' = Prompt)
         => shownFor = ErrorDelay ]_vars

\* C14: in the lock stage a "try again" message, whether it answers a heard
\* transcript or a typed submission, carries the text of that attempt.
TryAgainQuotesText ==
  (currentStage = "lock" /\ status.msg \in {"misheard", "wrongword"})
     => status.text = lastAttempt

\* the capture sessions started and not yet ended by a result or an error
ActiveSessions ==
  staleRecs.starting + staleRecs.capturing
    + (IF refRec \in {"starting", "capturing"} THEN 1 ELSE 0)

\* C15: recognition.start() is invoked only when no capture session is
\* active, so at most one capture session is active at a time.
SingleSession ==
  /\ [](ActiveSessions <= 1)
  /\ [][ (refRec' = "starting" /\ refRec # "starting")
         => ActiveSessions = 0 ]_vars

UnlockPending == \E i \in DOMAIN timers : timers[i].kind = "unlock"

\* C16: without the speech-capture capability the hook reports unsupported,
\* the text box is shown in every lock-stage state after the mount effects,
\* no recognizer exists and no capture session is ever started, and a typed
\* submission that contains an accepted phrase starts the unlock timer, which
\* opens the letter 1.5 s later.
UnsupportedFallsBack ==
  ~speechAvailable =>
    /\ ~isSupported
    /\ (currentStage = "lock" /\ lockReady) => showFallback
    /\ refRec = "null" /\ ActiveSessions = 0
    /\ (currentStage = "lock" /\ matchSeen)
          => (UnlockPending /\ matchClock <= UnlockDelay)

\* C16 witness: without speech capture, the letter has been opened by typing
TypedUnlockWithoutSpeech ==
  /\ ~speechAvailable
  /\ currentStage = "letter"
  /\ unlockCalls = 1
  /\ inputs = MaxInputs

UnlockTimers == Cardinality({i \in DOMAIN timers : timers[i].kind = "unlock"})

\* C17: whenever every capture session started in the lock stage has ended
\* in a result or an error, a new attempt can be made (the text box is shown
\* and, with speech capture, the lock accepts a tap: not listening, an idle
\* recognizer in place), and an attempt that contained an accepted phrase
\* has its unlock timer running, however many attempts failed before.
NoLockout ==
  /\ (currentStage = "lock" /\ lockReady /\ ActiveSessions = 0)
        => /\ showFallback
           /\ speechAvailable => (isSupported /\ ~isListening /\ refRec = "idle")
  /\ (currentStage = "lock" /\ matchSeen) => UnlockPending

\* C17 witness: with speech capture, all inputs were spent on attempts in the
\* lock stage, one of them ended in a recognition error, every session has
\* ended, and only the last attempt matched
UnlockAfterFailures ==
  /\ currentStage = "lock"
  /\ speechAvailable
  /\ inputs = MaxInputs
  /\ ActiveSessions = 0
  /\ UnlockTimers = 1 /\ unlockCalls = 0
  /\ \E i \in DOMAIN timers : timers[i].kind = "errorReset"
  /\ status = Unlocked
  /\ ~isListening

\* a step in which a pending audioContext.resume() has failed: the context
\* stays suspended and a call that waited for it has gone on
ResumeFailed ==
  /\ currentStage = "letter" /\ currentStage' = "letter"
  /\ ctx = "suspended" /\ ctx' = "suspended"
  /\ \/ resumeWaiters'.startMusic < resumeWaiters.startMusic
     \/ resumeWaiters'.handleToggle < resumeWaiters.handleToggle

\* C18: when resuming the suspended audio context fails, no re-arm timer is
\* started (no pass of the melody is scheduled), the stage, the visible
\* paragraphs and the reveal timer are as before, and isPlaying is as before
\* unless a toggle was waiting for the resume, whose requested change is
\* then made.
ResumeFailureIsContained ==
  [][ ResumeFailed =>
        /\ RearmCount' = RearmCount
        /\ visibleParagraphs' = visibleParagraphs
        /\ SelectSeq(timers', LAMBDA t : t.kind # "rearm")
             = SelectSeq(timers, LAMBDA t : t.kind # "rearm")
        /\ isPlaying' = (isPlaying \/ resumeWaiters.handleToggle > 0) ]_vars

\* C18 witness: the music timer has set isPlaying, the resume it waited for
\* has failed, and no pass has been scheduled
IdleAfterFailedResume ==
  /\ currentStage = "letter"
  /\ ctx = "suspended"
  /\ isPlaying
  /\ resumeWaiters = NoWaiters
  /\ RearmCount = 0
  /\ letterClock >= MusicStartDelay

\* C19: the audio context is never closed while the letter stage (and with
\* it the audio engine) is shown; it becomes closed only in the step that
\* leaves the letter stage, in which it is closed if one was created; once
\* closed it stays closed until a new engine is mounted.
ContextClosedAtTeardown ==
  /\ [](currentStage = "letter" => ctx # "closed")
  /\ [][ (ctx' = "closed" /\ ctx # "closed")
         => (currentStage = "letter" /\ currentStage' # "letter") ]_vars
  /\ [][ (currentStage = "letter" /\ currentStage' # "letter")
         => ctx' = (IF ctx = "none" THEN "none" ELSE "closed") ]_vars
  /\ [][ ctx = "closed" => (ctx' = "closed" \/ currentStage' = "letter") ]_vars

\* C19 witness: the letter stage has been left while the melody loop was
\* armed, and the context is closed
ClosedAfterPlaying ==
  /\ currentStage = "proposal"
  /\ ctx = "closed"
  /\ RearmCount >= 1

\* a step of the music toggle
ToggleStep == currentStage = "letter" /\ inputs' = inputs + 1

\* C20: a step of the music toggle leaves the stage, the visible paragraphs,
\* the time since entry and the reveal and music-start timers as they are;
\* it flips isPlaying, or leaves it for later when it has to wait for the
\* suspended context to resume.
ToggleFrame ==
  [][ ToggleStep =>
        /\ currentStage' = currentStage
        /\ visibleParagraphs' = visibleParagraphs
        /\ letterClock' = letterClock
        /\ SelectSeq(timers', LAMBDA t : t.kind \in {"reveal", "musicTimer"})
             = SelectSeq(timers, LAMBDA t : t.kind \in {"reveal", "musicTimer"})
        /\ \/ isPlaying' = ~isPlaying
           \/ ~isPlaying /\ ctx = "suspended" /\ ~isPlaying' ]_vars

\* C20 witness: in the middle of the reveal the music, which had started,
\* has been paused with the toggle
PausedMidReveal ==
  /\ currentStage = "letter"
  /\ visibleParagraphs \in 1..(ParagraphCount - 1)
  /\ RevealDue
  /\ ctx = "running"
  /\ ~isPlaying
  /\ RearmCount >= 1

\* C21: the continue button of the letter stage can be pressed exactly when
\* the number of visible paragraphs has reached the paragraph count; the
\* stage becomes proposal only from the letter stage with all paragraphs
\* visible, and pressing the button makes the stage proposal.
ContinueWhenRevealed ==
  /\ []((ENABLED handleRevealProposal)
        <=> (currentStage = "letter" /\ visibleParagraphs = ParagraphCount))
  /\ [][ (currentStage' = "proposal" /\ currentStage # "proposal")
         => (currentStage = "letter" /\ visibleParagraphs = ParagraphCount)
       ]_vars
  /\ [][ handleRevealProposal => currentStage' = "proposal" ]_vars

\* C21 witness: the continue button has been pressed and the proposal stage
\* is shown, 12 s or more after the letter stage was entered
ContinuedToProposal ==
  /\ currentStage = "proposal"
  /\ clock >= ParagraphCount * RevealPeriod
  /\ unlockCalls = 1

\* C22: in the proposal stage the hint panel, the declaration, the decision
\* buttons and the celebration come in this order only.  The hint is shown
\* 1 s after entry and not before, by its timer; the declaration is shown
\* only by the user's press of the hint button; the decision buttons are
\* shown 2 s after the declaration and not before, by their timer; the
\* celebration starts only by the accept button, pressed while the decision
\* buttons are shown.
SubPhasesInOrder ==
  /\ [](/\ showHint => (~showProposal /\ ~showButtons /\ ~celebrationMode)
        /\ showButtons => (showProposal /\ ~celebrationMode)
        /\ celebrationMode => showProposal
        /\ (currentStage = "proposal" /\ clock < HintDelay)
             => (~showHint /\ ~showProposal)
        /\ (currentStage = "proposal" /\ clock > HintDelay)
             => (showHint \/ showProposal)
        /\ showProposal => proposalLog.declared >= 0
        /\ showButtons => proposalLog.declared >= ButtonsDelay
        /\ (showProposal /\ proposalLog.declared > ButtonsDelay)
             => (showButtons \/ celebrationMode))
  /\ [][ (~showHint /\ showHint')
         => (fired'.kind = "hint" /\ clock = HintDelay) ]_vars
  /\ [][ (~showProposal /\ showProposal')
         => (showHint /\ ~showHint' /\ fired'.kind = "none"
             /\ proposalLog'.declared = 0) ]_vars
  /\ [][ (~showButtons /\ showButtons')
         => (/\ fired'.kind = "showButtons"
             /\ showProposal
             /\ proposalLog.declared = ButtonsDelay) ]_vars
  /\ [][ (~celebrationMode /\ celebrationMode')
         => (showButtons /\ showProposal /\ fired'.kind = "none") ]_vars

\* C22 witness: the celebration is shown, the accept button having been
\* pressed as soon as the decision buttons were there, 3 s after entry
CelebrationAfterAllPhases ==
  /\ currentStage = "proposal"
  /\ celebrationMode
  /\ proposalLog.accepted = 0
  /\ proposalLog.declared = ButtonsDelay
  /\ clock = HintDelay + ButtonsDelay

\* all particles of the celebration have been made and removed
BurstOver ==
  /\ proposalLog.created = ParticleCount
  /\ proposalLog.removed = ParticleCount
  /\ particles = 0

\* C23: after the accept button 100 particles are made, no more; the i-th
\* (from 0) is made i * 10 ms after the acceptance and removed 2 s after it
\* was made; at most 100 are there at a time; none is made before the
\* acceptance; and eventually all 100 have been made and removed.
ParticleBurst ==
  /\ [](/\ particles = proposalLog.created - proposalLog.removed
        /\ particles \in 0..ParticleCount
        /\ proposalLog.created \in 0..ParticleCount
        /\ proposalLog.created > 0 => proposalLog.accepted >= 0
        /\ (currentStage = "proposal" /\ proposalLog.created > 0)
             => celebrationMode)
  /\ [][ proposalLog'.created # proposalLog.created
         => (/\ proposalLog'.created = proposalLog.created + 1
             /\ proposalLog.accepted = proposalLog.created * ParticleStep)
       ]_vars
  /\ [][ proposalLog'.removed # proposalLog.removed
         => (/\ proposalLog'.removed = proposalLog.removed + 1
             /\ proposalLog.accepted
                  = proposalLog.removed * ParticleStep + ParticleLife)
       ]_vars
  /\ (proposalLog.accepted >= 0) ~> BurstOver

\* C23 witness: the last particle has just been removed, 990 ms + 2 s after
\* the acceptance
LastParticleRemoved ==
  /\ currentStage = "proposal"
  /\ celebrationMode
  /\ BurstOver
  /\ fired.kind = "particleRemove"
  /\ proposalLog.accepted = (ParticleCount - 1) * ParticleStep + ParticleLife

\* a capture session has had its onStart and not yet its onResult or onError
Capturing == refRec = "capturing" \/ staleRecs.capturing > 0

\* C24: while a capture session that has started has not yet delivered its
\* result or error, the lock stage shows the listening text and isListening
\* is true.
ListeningWhileCapturing ==
  (currentStage = "lock" /\ Capturing)
    => (status = ListeningMsg /\ isListening)

\* the reveal interval is armed
RevealArmed == \E i \in DOMAIN timers : timers[i].kind = "reveal"

\* C25 as stated: once the number of visible paragraphs equals the paragraph
\* count the reveal interval is no longer armed.
RevealDisarmedAtCount ==
  (currentStage = "letter" /\ visibleParagraphs = ParagraphCount)
    => ~RevealArmed

\* C25 amended: each tick of the reveal interval that finds fewer visible
\* paragraphs than the paragraph count adds one and leaves the interval
\* armed; the first tick that finds the count reached changes nothing and
\* cancels the interval.  So the interval stays armed for one period after
\* the count is reached: it is armed until 11 periods after entry, when its
\* last tick fires, and not after, and no tick fires later.
RevealCancelsOneTickLater ==
  /\ []((currentStage = "letter"
         /\ letterClock < (ParagraphCount + 1) * RevealPeriod) => RevealArmed)
  /\ []((currentStage = "letter"
         /\ letterClock > (ParagraphCount + 1) * RevealPeriod) => ~RevealArmed)
  /\ [][ (fired'.kind = "reveal" /\ fired'.at = "letter")
         => (/\ letterClock <= (ParagraphCount + 1) * RevealPeriod
             /\ \/ /\ visibleParagraphs < ParagraphCount
                   /\ visibleParagraphs' = visibleParagraphs + 1
                   /\ RevealArmed'
                \/ /\ visibleParagraphs = ParagraphCount
                   /\ visibleParagraphs' = ParagraphCount
                   /\ ~RevealArmed') ]_vars

\* C25 witness: the eleventh tick has fired, 13.2 s after entry, and has
\* cancelled the interval
RevealCancelled ==
  /\ currentStage = "letter"
  /\ fired.kind = "reveal"
  /\ visibleParagraphs = ParagraphCount
  /\ letterClock = (ParagraphCount + 1) * RevealPeriod
  /\ ~RevealArmed

\* start of note k of a pass (k from 0), counted from the start of the pass
NoteOffset(k) == SumSeq(SubSeq(melody, 1, k))

\* the oscillators that note k of a pass starting at `start` is to have
NoteOscillators(k, start) ==
  LET f == melodyNote[k + 1]
      d == melody[k + 1]
      at == start + NoteOffset(k)
  IN {[frequency |-> f, startTime |-> at, duration |-> d, volume |-> 10]}
     \cup (IF k \in {0, 3, 6, 9}
           THEN {[frequency |-> (3 * f) \div 2, startTime |-> at,
                  duration |-> d, volume |-> 3]}
           ELSE {})
     \cup (IF k \in {0, 4, 8}
           THEN {[frequency |-> 2 * f, startTime |-> at + 10,
                  duration |-> (8 * d) \div 10, volume |-> 2]}
           ELSE {})

\* C26: in a pass of the melody note k starts at the start of the pass plus
\* the durations of the notes before it; a harmony note (1.5 x frequency,
\* same start and duration) goes with notes 0, 3, 6, 9 and an octave note
\* (2 x frequency, 0.1 s later, 0.8 x duration) with notes 0, 4, 8, no other
\* oscillator is made, so a pass has 17; a pass lasts 13.2 s and the next
\* pass starts where the one before ended.
MelodySchedule ==
  /\ [](noteIndex >= 0 =>
         /\ currentTime = passStart + NoteOffset(noteIndex)
         /\ {oscillators[i] : i \in DOMAIN oscillators}
              = UNION {NoteOscillators(k, passStart) : k \in 0..(noteIndex - 1)}
         /\ Len(oscillators)
              = noteIndex
                + Cardinality({0, 3, 6, 9} \cap 0..(noteIndex - 1))
                + Cardinality({0, 4, 8} \cap 0..(noteIndex - 1))
         /\ noteIndex = 10 =>
              (currentTime = passStart + 1320 /\ Len(oscillators) = 17))
  /\ [][ passes' # passes
         => (/\ passStart' = currentTime
             /\ passes > 0 => currentTime = passStart + 1320) ]_vars

\* C26 witness: the second pass of a melody started at 0.37 s is scheduled
\* in full; it began at 13.57 s
SecondPassScheduled ==
  /\ passes = 2
  /\ noteIndex = 10
  /\ passStart = 37 + 1320
  /\ Len(oscillators) = 17

\* C27: when speech capture is available, the status of the lock stage once
\* the mount effects have run and before any user input is the tap-to-speak
\* prompt, and the status is never the unsupported-browser notice.
PromptAfterMount ==
  speechAvailable =>
    /\ (currentStage = "lock" /\ lockReady /\ inputs = 0) => status = Prompt
    /\ status # Unsupported

\* the resume that a call of startMusic waits for completes after the music
\* has been paused, no toggle waiting to start it again
ResumedAfterStop ==
  /\ ctx = "suspended"
  /\ ctx' = "running"
  /\ resumeWaiters.startMusic > 0
  /\ resumeWaiters.handleToggle = 0
  /\ ~isPlaying

\* C28: when the music is paused while startMusic still waits for the
\* suspended audio context to resume, the completion of the resume
\* schedules no pass of the melody: no re-arm timer is started.
StopWinsOverResume == [][ ResumedAfterStop => RearmCount' = RearmCount ]_vars

\* C29: a text unlocks as a voice transcript exactly when it unlocks as a
\* typed submission, and it does so exactly when it contains 'radha' in any
\* mix of cases, or the Devanagari phrase, at least once.
VoiceTypedEquivalent ==
  mResult.done =>
    /\ mResult.voice <=> mResult.typed
    /\ (ContainsPhrase(mText, Radha) \/ ContainsPhrase(mText, RadhaDeva))
         => (mResult.voice /\ mResult.typed)
    /\ (mResult.voice \/ mResult.typed)
         => (ContainsPhrase(mText, Radha) \/ ContainsPhrase(mText, RadhaDeva))

\* C29 witness: the Devanagari phrase, once, followed by another letter, is
\* accepted on both paths
DevanagariAcceptedByBoth ==
  /\ mResult.done
  /\ mText = RadhaDeva \o <<"a">>
  /\ mResult.voice
  /\ mResult.typed

====
